---- MODULE Spec2Model ----
(***************************************************************************)
(* reddit_etl_proj/etl_pipeline.py as a state machine.                     *)
(*                                                                         *)
(* One "run" is one execution of the script (one process).  A run collects *)
(* posts over the (subreddit, keyword) matrix, writes a backup, transforms *)
(* the batch, loads it into the MySQL star schema (DimSubreddit, DimTime,  *)
(* FactPost) and finally renders the charts.  The warehouse is shared by   *)
(* all runs; everything else is memory of one process and is gone when the *)
(* process exits.                                                          *)
(***************************************************************************)
EXTENDS Integers, Sequences, FiniteSets, TLC

\* ------------------------------------------------------------------ bounds
\* Number of invocations of the script.
NumRuns == 2
\* limit= of one search (1000 in the script), cut down for checking.
post_limit_per_query == 2

\* Posts in the batch of each of the runs that load concurrently.
ConcBatchLen == 2

Runs == 1 .. NumRuns
\* The runs that load concurrently under ConcSpec.
ConcRuns == {1, 2}

\* ------------------------------------------------------- the configuration
\* The two lists of the script, cut down to two entries each.
subreddits_to_search == <<"A", "B">>
keywords == <<"k1", "k2">>

\* The nested for loops enumerate the pairs in this order.
NumPairs == Len(subreddits_to_search) * Len(keywords)
PairSubreddit(i) == subreddits_to_search[((i - 1) \div Len(keywords)) + 1]

\* ------------------------------------------------------------ the upstream
\* The submissions reddit can return.  A submission has an id, the subreddit
\* it was posted in and a creation date <<year, day of the year>>.
Submissions ==
  { [id |-> "p1", subreddit |-> "A", date |-> <<2023, 40>>],
    [id |-> "p2", subreddit |-> "B", date |-> <<2024, 7>>],
    [id |-> "p3", subreddit |-> "A", date |-> <<2024, 200>>] }

\* A search of one subreddit returns submissions of that subreddit.
SearchResults(sr) == { s \in Submissions : s.subreddit = sr }

NoErr == [at |-> "none", kind |-> "none"]

VARIABLES
  \* ---- memory of one run
  pc,             \* where the run is in the script
  qi,             \* index of the (subreddit, keyword) pair being searched
  nres,           \* submissions the current search has yielded
  seen_ids,       \* seen_ids
  posts,          \* posts
  df,             \* df
  conn,           \* conn: "undefined", "open", "lost" or "closed"
  cursor,         \* cursor: "undefined", "open" or "closed"
  di,             \* position in df[...].unique() of the dimension loops
  subreddit_map,  \* subreddit_map
  year_map,       \* year_map
  db_err,         \* the exception the load's except clause caught
  \* ---- the warehouse
  DimSubreddit,   \* rows [subreddit_id, name, txn, by]
  DimTime,        \* rows [time_id, year, txn, by]
  FactPost,       \* rows [post_id, subreddit_id, time_id, txn, by]
  next_subreddit_id,
  next_time_id,
  \* ---- what an observer of the runs records
  status,         \* exit status of the process, -1 while it runs
  escaped,        \* the exception that ended the process, or "none"
  load_failed,    \* the load of the run logged a database error
  queried,        \* queried[r][i]: searches issued for pair i
  returned,       \* ids the searches of a run have yielded
  skipped,        \* the submission last yielded by the search was a seen one
  pause,          \* seconds of the time.sleep under way, 0 when none is
  empty_batch,    \* the logged "Total posts collected" was 0
  facts_before,   \* committed FactPost when the run connected
  ever_committed, \* <<table, surrogate key, natural key>> ever committed
  load_log        \* per run: the completed fact load, or <<>>

run_vars == <<pc, qi, nres, seen_ids, posts, df, conn, cursor, di,
              subreddit_map, year_map, db_err>>
db_vars == <<DimSubreddit, DimTime, FactPost, next_subreddit_id, next_time_id>>
obs_vars == <<status, escaped, load_failed, queried, returned, skipped, pause,
              empty_batch,
              facts_before, ever_committed, load_log>>
vars == <<run_vars, db_vars, obs_vars>>

\* ----------------------------------------------------------------- helpers
Range(s) == { s[i] : i \in DOMAIN s }

RECURSIVE Unique(_)
\* Series.unique(): the distinct values in order of first appearance.
Unique(s) ==
  IF s = <<>> THEN <<>>
  ELSE LET front == Unique(SubSeq(s, 1, Len(s) - 1))
           last == s[Len(s)]
       IN IF last \in Range(front) THEN front ELSE Append(front, last)

Column(frame, name) == [i \in DOMAIN frame |-> frame[i][name]]

\* lambda x: x.year
YearOf(date) == date[1]

Finished(r) == pc[r] \in {"done", "crashed"}

EmptyMap == [k \in {} |-> 0]
MapPut(m, k, v) == [x \in DOMAIN m \cup {k} |-> IF x = k THEN v ELSE m[x]]

\* -------------------------------------------------------------------- Init
Init ==
  /\ pc = [r \in Runs |-> "idle"]
  /\ qi = [r \in Runs |-> 1]
  /\ nres = [r \in Runs |-> 0]
  /\ seen_ids = [r \in Runs |-> {}]
  /\ posts = [r \in Runs |-> <<>>]
  /\ df = [r \in Runs |-> <<>>]
  /\ conn = [r \in Runs |-> "undefined"]
  /\ cursor = [r \in Runs |-> "undefined"]
  /\ di = [r \in Runs |-> 1]
  /\ subreddit_map = [r \in Runs |-> EmptyMap]
  /\ year_map = [r \in Runs |-> EmptyMap]
  /\ db_err = [r \in Runs |-> NoErr]
  /\ DimSubreddit = {}
  /\ DimTime = {}
  /\ FactPost = {}
  /\ next_subreddit_id = 1
  /\ next_time_id = 1
  /\ status = [r \in Runs |-> -1]
  /\ escaped = [r \in Runs |-> "none"]
  /\ load_failed = [r \in Runs |-> FALSE]
  /\ queried = [r \in Runs |-> [i \in 1 .. NumPairs |-> 0]]
  /\ returned = [r \in Runs |-> {}]
  /\ skipped = [r \in Runs |-> FALSE]
  /\ pause = [r \in Runs |-> 0]
  /\ empty_batch = [r \in Runs |-> FALSE]
  /\ facts_before = [r \in Runs |-> {}]
  /\ ever_committed = {}
  /\ load_log = [r \in Runs |-> <<>>]

\* ------------------------------------------------------- the process ends
\* The process is gone: its memory with it.  What the observer noted about
\* the collection of this run is dropped with it.
ProcessExit(r, code, exc) ==
  /\ pc' = [pc EXCEPT ![r] = IF exc = "none" THEN "done" ELSE "crashed"]
  /\ status' = [status EXCEPT ![r] = code]
  /\ escaped' = [escaped EXCEPT ![r] = exc]
  /\ load_failed' = [load_failed EXCEPT ![r] = db_err[r] # NoErr]
  /\ qi' = [qi EXCEPT ![r] = 1]
  /\ nres' = [nres EXCEPT ![r] = 0]
  /\ seen_ids' = [seen_ids EXCEPT ![r] = {}]
  /\ posts' = [posts EXCEPT ![r] = <<>>]
  /\ df' = [df EXCEPT ![r] = <<>>]
  /\ conn' = [conn EXCEPT ![r] = "undefined"]
  /\ cursor' = [cursor EXCEPT ![r] = "undefined"]
  /\ di' = [di EXCEPT ![r] = 1]
  /\ subreddit_map' = [subreddit_map EXCEPT ![r] = EmptyMap]
  /\ year_map' = [year_map EXCEPT ![r] = EmptyMap]
  /\ db_err' = [db_err EXCEPT ![r] = NoErr]
  /\ returned' = [returned EXCEPT ![r] = {}]
  /\ pause' = [pause EXCEPT ![r] = 0]
  /\ facts_before' = [facts_before EXCEPT ![r] = {}]

\* An exception no handler catches: traceback, exit status 1.
Crash(r, exc) == ProcessExit(r, 1, exc)

\* ----------------------------------------------------------------- Extract
\* The script is started.  Runs of Spec follow one another.
Start(r) ==
  /\ pc[r] = "idle"
  /\ \A q \in Runs : q < r => Finished(q)
  /\ pc' = [pc EXCEPT ![r] = "search"]
  /\ UNCHANGED <<qi, nres, seen_ids, posts, df, conn, cursor, di,
                 subreddit_map, year_map, db_err>>
  /\ UNCHANGED <<db_vars, obs_vars>>

\* Lines 44-48: the next pair of the loops; the search is issued.
Search(r) ==
  /\ pc[r] = "search"
  /\ queried' = [queried EXCEPT ![r][qi[r]] = @ + 1]
  /\ pause' = [pause EXCEPT ![r] = 0]
  /\ pc' = [pc EXCEPT ![r] = "iterate"]
  /\ UNCHANGED <<qi, nres, seen_ids, posts, df, conn, cursor, di,
                 subreddit_map, year_map, db_err>>
  /\ UNCHANGED <<db_vars, status, escaped, load_failed, returned, skipped,
                 empty_batch, facts_before, ever_committed, load_log>>

\* Mutant of NotSeen: the membership test is dropped.
NotSeenM(seen, id) == TRUE

\* Line 49: submission.id not in seen_ids
NotSeen(seen, id) == id \notin seen

\* Lines 51-57: the dict appended to posts (content and url are carried
\* through the pipeline untouched and are left out).
PostRecord(s) == [id |-> s.id, date |-> s.date, subreddit |-> s.subreddit]

\* Lines 48-57: the search yields one more submission.
Yield(r) ==
  /\ pc[r] = "iterate"
  /\ nres[r] < post_limit_per_query
  /\ \E s \in SearchResults(PairSubreddit(qi[r])) :
       /\ returned' = [returned EXCEPT ![r] = @ \cup {s.id}]
       /\ skipped' = [skipped EXCEPT ![r] = ~NotSeen(seen_ids[r], s.id)]
       /\ IF NotSeen(seen_ids[r], s.id)
            THEN /\ seen_ids' = [seen_ids EXCEPT ![r] = @ \cup {s.id}]
                 /\ posts' = [posts EXCEPT ![r] = Append(@, PostRecord(s))]
            ELSE UNCHANGED <<seen_ids, posts>>
  /\ nres' = [nres EXCEPT ![r] = @ + 1]
  /\ UNCHANGED <<pc, qi, df, conn, cursor, di, subreddit_map, year_map, db_err>>
  /\ UNCHANGED <<db_vars, status, escaped, load_failed, queried, pause,
                 empty_batch, facts_before, ever_committed, load_log>>

\* The loops move on: the next pair, or line 63 after the last one.  The
\* listing generator of the finished search is dropped.
NextPair(r) ==
  /\ qi' = [qi EXCEPT ![r] = @ + 1]
  /\ nres' = [nres EXCEPT ![r] = 0]
  /\ skipped' = [skipped EXCEPT ![r] = FALSE]
  /\ pc' = [pc EXCEPT ![r] = IF qi[r] = NumPairs THEN "backup" ELSE "search"]

\* Line 58: the search is exhausted (or hit its limit); time.sleep(1).
QueryDone(r) ==
  /\ pc[r] = "iterate"
  /\ pause' = [pause EXCEPT ![r] = 1]
  /\ NextPair(r)
  /\ UNCHANGED <<seen_ids, posts, df, conn, cursor, di,
                 subreddit_map, year_map, db_err>>
  /\ UNCHANGED <<db_vars, status, escaped, load_failed, queried, returned,
                 empty_batch, facts_before, ever_committed, load_log>>

\* Mutant of QueryFail: no try/except around the search, the exception
\* ends the run.
QueryFailAbortM(r) ==
  /\ pc[r] = "iterate"
  /\ Crash(r, "Exception")
  /\ UNCHANGED <<db_vars, queried, skipped, empty_batch, ever_committed, load_log>>

\* Lines 59-61: the search raised, before its first submission or after
\* some; the warning is logged, time.sleep(5).
QueryFail(r) ==
  /\ pc[r] = "iterate"
  /\ pause' = [pause EXCEPT ![r] = 5]
  /\ NextPair(r)
  /\ UNCHANGED <<seen_ids, posts, df, conn, cursor, di,
                 subreddit_map, year_map, db_err>>
  /\ UNCHANGED <<db_vars, status, escaped, load_failed, queried, returned,
                 empty_batch, facts_before, ever_committed, load_log>>

\* --------------------------------------------------------------- Backup
\* Lines 63-70: the count is logged, df = pd.DataFrame(posts), and a
\* non-empty frame is written to the backup file.
Backup(r) ==
  /\ pc[r] = "backup"
  /\ empty_batch' = [empty_batch EXCEPT ![r] = (Len(posts[r]) = 0)]
  /\ df' = [df EXCEPT ![r] = posts[r]]
  /\ pause' = [pause EXCEPT ![r] = 0]
  /\ pc' = [pc EXCEPT ![r] = "transform"]
  /\ UNCHANGED <<qi, nres, seen_ids, posts, conn, cursor, di,
                 subreddit_map, year_map, db_err>>
  /\ UNCHANGED <<db_vars, status, escaped, load_failed, queried, returned, skipped,
                 facts_before, ever_committed, load_log>>

\* Line 69: to_csv cannot write the file (disk full, no permission); no
\* handler encloses it.
BackupFail(r) ==
  /\ pc[r] = "backup"
  /\ posts[r] # <<>>
  /\ empty_batch' = [empty_batch EXCEPT ![r] = (Len(posts[r]) = 0)]
  /\ Crash(r, "OSError")
  /\ UNCHANGED <<db_vars, queried, skipped, ever_committed, load_log>>

\* ------------------------------------------------------------- Transform
\* Line 81: df['year'] = df['date'].apply(lambda x: x.year)
WithYear(row) ==
  [id |-> row.id, date |-> row.date, subreddit |-> row.subreddit,
   year |-> YearOf(row.date)]

\* Lines 77-81 on a frame with rows.
Transform(r) ==
  /\ pc[r] = "transform"
  /\ df[r] # <<>>
  /\ df' = [df EXCEPT ![r] = [i \in DOMAIN df[r] |-> WithYear(df[r][i])]]
  /\ pc' = [pc EXCEPT ![r] = "connect"]
  /\ UNCHANGED <<qi, nres, seen_ids, posts, conn, cursor, di,
                 subreddit_map, year_map, db_err>>
  /\ UNCHANGED <<db_vars, obs_vars>>

\* Line 77 on pd.DataFrame([]): the frame has no columns, df['content']
\* raises KeyError, and no handler encloses it.
TransformEmpty(r) ==
  /\ pc[r] = "transform"
  /\ df[r] = <<>>
  /\ Crash(r, "KeyError")
  /\ UNCHANGED <<db_vars, queried, skipped, empty_batch, ever_committed, load_log>>

\* ------------------------------------------------------------ the warehouse
\* The unique keys of the three tables.
DimSubredditKey(row) == row.name
DimTimeKey(row) == row.year
FactPostKey(row) == row.post_id

\* A row written by a transaction that has not committed carries the run
\* that wrote it in txn; a committed row carries 0.
Committed(tbl) == { row \in tbl : row.txn = 0 }
\* What the statements of run r read: committed rows and its own.
VisibleTo(tbl, r) == { row \in tbl : row.txn \in {0, r} }

RollbackRows(tbl, r) == { row \in tbl : row.txn # r }

\* conn.commit(): the rows of the transaction become committed rows.
CommitRows(tbl, r) ==
  { IF row.txn = r THEN [row EXCEPT !.txn = 0] ELSE row : row \in tbl }

\* conn.close() without a commit, or the server losing the client: the open
\* transaction is rolled back.
CloseRows(tbl, r) == RollbackRows(tbl, r)

\* The committed rows of the dimensions, as the observer notes them.
CommittedKeys(subs, times) ==
  { <<"DimSubreddit", row.subreddit_id, row.name>> : row \in Committed(subs) }
    \cup { <<"DimTime", row.time_id, row.year>> : row \in Committed(times) }

\* An insert of a key on which another transaction holds an uncommitted row
\* waits for that transaction to end.
DimSubredditLocked(sr, r) ==
  \E row \in DimSubreddit : DimSubredditKey(row) = sr /\ row.txn \notin {0, r}
DimTimeLocked(y, r) ==
  \E row \in DimTime : DimTimeKey(row) = y /\ row.txn \notin {0, r}
FactPostLocked(values, r) ==
  \E row \in FactPost :
    /\ row.txn \notin {0, r}
    /\ \E i \in DOMAIN values : values[i].post_id = FactPostKey(row)

\* --------------------------------------------------------------- Connect
\* Lines 85-92: connect() and conn.cursor(buffered=True) succeed.
Connect(r) ==
  /\ pc[r] = "connect"
  /\ conn' = [conn EXCEPT ![r] = "open"]
  /\ cursor' = [cursor EXCEPT ![r] = "open"]
  /\ di' = [di EXCEPT ![r] = 1]
  /\ subreddit_map' = [subreddit_map EXCEPT ![r] = EmptyMap]
  /\ facts_before' = [facts_before EXCEPT ![r] = Committed(FactPost)]
  /\ pc' = [pc EXCEPT ![r] = "dim_subreddit_insert"]
  /\ UNCHANGED <<qi, nres, seen_ids, posts, df, year_map, db_err>>
  /\ UNCHANGED <<db_vars, status, escaped, load_failed, queried, returned, skipped, pause,
                 empty_batch, ever_committed, load_log>>

\* Lines 85-92 and 131-132: connect() raises, so conn is never bound; or
\* connect() returns and the connection drops before cursor() is served,
\* so cursor is never bound.  The except clause logs the error.
ConnectFail(r) ==
  /\ pc[r] = "connect"
  /\ \E acquired \in BOOLEAN :
       /\ conn' = [conn EXCEPT ![r] = IF acquired THEN "lost" ELSE "undefined"]
       /\ db_err' = [db_err EXCEPT
                       ![r] = [at |-> IF acquired THEN "cursor" ELSE "connect",
                               kind |-> "db"]]
  /\ pc' = [pc EXCEPT ![r] = "finally"]
  /\ UNCHANGED <<qi, nres, seen_ids, posts, df, cursor, di, subreddit_map, year_map>>
  /\ UNCHANGED <<db_vars, obs_vars>>

\* Lines 131-132: an exception of the try block reaches the except clause.
Caught(r, kind) ==
  /\ db_err' = [db_err EXCEPT ![r] = [at |-> pc[r], kind |-> kind]]
  /\ pc' = [pc EXCEPT ![r] = "finally"]

\* ----------------------------------------------------------- DimSubreddit
\* Line 96: df['subreddit'].unique()
SubredditList(r) == Unique(Column(df[r], "subreddit"))

\* Mutant of InsertIgnoreDimSubreddit: the statement adds a row whether or
\* not the name is there.
InsertDimSubredditAlwaysM(tbl, next_id, sr, r) ==
  [rows |-> tbl \cup {[subreddit_id |-> next_id, name |-> sr, txn |-> r, by |-> r]},
   next |-> next_id + 1, err |-> "none"]

\* Line 97: INSERT IGNORE INTO DimSubreddit (name) VALUES (%s)
InsertIgnoreDimSubreddit(tbl, next_id, sr, r) ==
  IF \E row \in VisibleTo(tbl, r) : DimSubredditKey(row) = sr
    THEN [rows |-> tbl, next |-> next_id, err |-> "none"]
    ELSE [rows |-> tbl \cup {[subreddit_id |-> next_id, name |-> sr,
                              txn |-> r, by |-> r]},
          next |-> next_id + 1, err |-> "none"]

\* Line 97.
DimSubredditInsert(r) ==
  /\ pc[r] = "dim_subreddit_insert"
  /\ LET sr == SubredditList(r)[di[r]]
         res == InsertIgnoreDimSubreddit(DimSubreddit, next_subreddit_id, sr, r)
     IN /\ ~DimSubredditLocked(sr, r)
        /\ IF res.err = "none"
             THEN /\ DimSubreddit' = res.rows
                  /\ next_subreddit_id' = res.next
                  /\ pc' = [pc EXCEPT ![r] = "dim_subreddit_commit"]
                  /\ UNCHANGED db_err
             ELSE /\ Caught(r, res.err)
                  /\ UNCHANGED <<DimSubreddit, next_subreddit_id>>
  /\ UNCHANGED <<qi, nres, seen_ids, posts, df, conn, cursor, di,
                 subreddit_map, year_map>>
  /\ UNCHANGED <<DimTime, FactPost, next_time_id, obs_vars>>

\* conn.commit() of lines 98, 107 and 127.
Commit(r) ==
  /\ DimSubreddit' = CommitRows(DimSubreddit, r)
  /\ DimTime' = CommitRows(DimTime, r)
  /\ FactPost' = CommitRows(FactPost, r)
  /\ ever_committed' = ever_committed \cup CommittedKeys(DimSubreddit', DimTime')
  /\ UNCHANGED <<next_subreddit_id, next_time_id>>

\* Mutant of DimSubredditCommit: line 98 is missing.
DimSubredditCommitSkipM(r) ==
  /\ pc[r] = "dim_subreddit_commit"
  /\ pc' = [pc EXCEPT ![r] = "dim_subreddit_select"]
  /\ UNCHANGED <<qi, nres, seen_ids, posts, df, conn, cursor, di,
                 subreddit_map, year_map, db_err>>
  /\ UNCHANGED <<db_vars, obs_vars>>

\* Line 98.
DimSubredditCommit(r) ==
  /\ pc[r] = "dim_subreddit_commit"
  /\ Commit(r)
  /\ pc' = [pc EXCEPT ![r] = "dim_subreddit_select"]
  /\ UNCHANGED <<qi, nres, seen_ids, posts, df, conn, cursor, di,
                 subreddit_map, year_map, db_err>>
  /\ UNCHANGED <<status, escaped, load_failed, queried, returned, skipped, pause,
                 empty_batch, facts_before, load_log>>

\* Line 99: SELECT subreddit_id FROM DimSubreddit WHERE name = %s
SelectSubredditId(tbl, sr, r) ==
  { row.subreddit_id : row \in { x \in VisibleTo(tbl, r) : x.name = sr } }

\* Lines 99-100: fetchone() is one of the rows selected, or None, and
\* None[0] raises TypeError.
DimSubredditSelect(r) ==
  /\ pc[r] = "dim_subreddit_select"
  /\ LET sr == SubredditList(r)[di[r]]
         ids == SelectSubredditId(DimSubreddit, sr, r)
     IN IF ids = {}
          THEN /\ Caught(r, "norow")
               /\ UNCHANGED <<subreddit_map, di>>
          ELSE /\ \E id \in ids :
                    /\ subreddit_map' = [subreddit_map EXCEPT ![r] = MapPut(@, sr, id)]
               /\ IF di[r] = Len(SubredditList(r))
                    THEN /\ di' = [di EXCEPT ![r] = 1]
                         /\ pc' = [pc EXCEPT ![r] = "dim_time_insert"]
                    ELSE /\ di' = [di EXCEPT ![r] = @ + 1]
                         /\ pc' = [pc EXCEPT ![r] = "dim_subreddit_insert"]
               /\ UNCHANGED db_err
  /\ UNCHANGED <<qi, nres, seen_ids, posts, df, conn, cursor, year_map>>
  /\ UNCHANGED <<db_vars, status, escaped, load_failed, queried, returned, skipped, pause,
                 empty_batch, facts_before, ever_committed, load_log>>

\* ---------------------------------------------------------------- DimTime
\* Line 104: df['year'].unique()
YearList(r) == Unique(Column(df[r], "year"))

\* Mutant of InsertIgnoreDimTime: INSERT without IGNORE, a year that is
\* there raises the duplicate-key error.
InsertDimTimePlainM(tbl, next_id, y, r) ==
  IF \E row \in VisibleTo(tbl, r) : DimTimeKey(row) = y
    THEN [rows |-> tbl, next |-> next_id, err |-> "duplicate"]
    ELSE [rows |-> tbl \cup {[time_id |-> next_id, year |-> y, txn |-> r, by |-> r]},
          next |-> next_id + 1, err |-> "none"]

\* Line 106: INSERT IGNORE INTO DimTime (year) VALUES (%s)
InsertIgnoreDimTime(tbl, next_id, y, r) ==
  IF \E row \in VisibleTo(tbl, r) : DimTimeKey(row) = y
    THEN [rows |-> tbl, next |-> next_id, err |-> "none"]
    ELSE [rows |-> tbl \cup {[time_id |-> next_id, year |-> y,
                              txn |-> r, by |-> r]},
          next |-> next_id + 1, err |-> "none"]

\* Lines 105-106.
DimTimeInsert(r) ==
  /\ pc[r] = "dim_time_insert"
  /\ LET y == YearList(r)[di[r]]
         res == InsertIgnoreDimTime(DimTime, next_time_id, y, r)
     IN /\ ~DimTimeLocked(y, r)
        /\ IF res.err = "none"
             THEN /\ DimTime' = res.rows
                  /\ next_time_id' = res.next
                  /\ pc' = [pc EXCEPT ![r] = "dim_time_commit"]
                  /\ UNCHANGED db_err
             ELSE /\ Caught(r, res.err)
                  /\ UNCHANGED <<DimTime, next_time_id>>
  /\ UNCHANGED <<qi, nres, seen_ids, posts, df, conn, cursor, di,
                 subreddit_map, year_map>>
  /\ UNCHANGED <<DimSubreddit, FactPost, next_subreddit_id, obs_vars>>

\* Mutant of DimTimeCommit: line 107 is missing.
DimTimeCommitSkipM(r) ==
  /\ pc[r] = "dim_time_commit"
  /\ pc' = [pc EXCEPT ![r] = "dim_time_select"]
  /\ UNCHANGED <<qi, nres, seen_ids, posts, df, conn, cursor, di,
                 subreddit_map, year_map, db_err>>
  /\ UNCHANGED <<db_vars, obs_vars>>

\* Line 107.
DimTimeCommit(r) ==
  /\ pc[r] = "dim_time_commit"
  /\ Commit(r)
  /\ pc' = [pc EXCEPT ![r] = "dim_time_select"]
  /\ UNCHANGED <<qi, nres, seen_ids, posts, df, conn, cursor, di,
                 subreddit_map, year_map, db_err>>
  /\ UNCHANGED <<status, escaped, load_failed, queried, returned, skipped, pause,
                 empty_batch, facts_before, load_log>>

\* Line 108: SELECT time_id FROM DimTime WHERE year = %s
SelectTimeId(tbl, y, r) ==
  { row.time_id : row \in { x \in VisibleTo(tbl, r) : x.year = y } }

\* Lines 108-109.
DimTimeSelect(r) ==
  /\ pc[r] = "dim_time_select"
  /\ LET y == YearList(r)[di[r]]
         ids == SelectTimeId(DimTime, y, r)
     IN IF ids = {}
          THEN /\ Caught(r, "norow")
               /\ UNCHANGED <<year_map, di>>
          ELSE /\ \E id \in ids :
                    /\ year_map' = [year_map EXCEPT ![r] = MapPut(@, y, id)]
               /\ IF di[r] = Len(YearList(r))
                    THEN /\ di' = [di EXCEPT ![r] = 1]
                         /\ pc' = [pc EXCEPT ![r] = "fact_insert"]
                    ELSE /\ di' = [di EXCEPT ![r] = @ + 1]
                         /\ pc' = [pc EXCEPT ![r] = "dim_time_insert"]
               /\ UNCHANGED db_err
  /\ UNCHANGED <<qi, nres, seen_ids, posts, df, conn, cursor, subreddit_map>>
  /\ UNCHANGED <<db_vars, status, escaped, load_failed, queried, returned, skipped, pause,
                 empty_batch, facts_before, ever_committed, load_log>>

\* --------------------------------------------------------------- FactPost
\* Lines 112-119: one tuple per row of df (content, url, sentiment and
\* dropout_mentioned are carried along and are left out).
FactValues(frame, smap, ymap) ==
  [i \in DOMAIN frame |->
     [post_id |-> frame[i].id,
      subreddit_id |-> smap[frame[i].subreddit],
      time_id |-> ymap[frame[i].year]]]

RECURSIVE InsertIgnoreRows(_, _, _)
\* The rows of one multi-row INSERT IGNORE, in order: a row whose post_id
\* is already in the table (or was added by an earlier row) is skipped.
InsertIgnoreRows(tbl, values, r) ==
  IF values = <<>> THEN tbl
  ELSE LET v == Head(values)
           present == \E row \in VisibleTo(tbl, r) : FactPostKey(row) = v.post_id
           added == [post_id |-> v.post_id, subreddit_id |-> v.subreddit_id,
                     time_id |-> v.time_id, txn |-> r, by |-> r]
       IN InsertIgnoreRows(IF present THEN tbl ELSE tbl \cup {added},
                           Tail(values), r)

\* Mutant of InsertIgnoreFactPost: INSERT without IGNORE, a post_id that is
\* there raises the duplicate-key error and the statement adds nothing.
InsertFactPostPlainM(tbl, values, r) ==
  IF \E i \in DOMAIN values :
       \E row \in VisibleTo(tbl, r) : FactPostKey(row) = values[i].post_id
    THEN [rows |-> tbl, err |-> "duplicate"]
    ELSE [rows |-> InsertIgnoreRows(tbl, values, r), err |-> "none"]

\* Lines 121-126: executemany of INSERT IGNORE INTO FactPost, which the
\* connector sends as one multi-row statement.
InsertIgnoreFactPost(tbl, values, r) ==
  [rows |-> InsertIgnoreRows(tbl, values, r), err |-> "none"]

\* Lines 112-126.
FactInsert(r) ==
  /\ pc[r] = "fact_insert"
  /\ LET values == FactValues(df[r], subreddit_map[r], year_map[r])
         res == InsertIgnoreFactPost(FactPost, values, r)
     IN /\ ~FactPostLocked(values, r)
        /\ IF res.err = "none"
             THEN /\ FactPost' = res.rows
                  /\ pc' = [pc EXCEPT ![r] = "fact_commit"]
                  /\ UNCHANGED db_err
             ELSE /\ Caught(r, res.err)
                  /\ UNCHANGED FactPost
  /\ UNCHANGED <<qi, nres, seen_ids, posts, df, conn, cursor, di,
                 subreddit_map, year_map>>
  /\ UNCHANGED <<DimSubreddit, DimTime, next_subreddit_id, next_time_id, obs_vars>>

\* Lines 127-129: the commit, and the log line of the completed load.
FactCommit(r) ==
  /\ pc[r] = "fact_commit"
  /\ Commit(r)
  /\ load_log' = [load_log EXCEPT
                    ![r] = [batch |-> Range(Column(df[r], "id")),
                            rows |-> Len(df[r]),
                            before |-> facts_before[r],
                            after |-> Committed(FactPost')]]
  /\ pc' = [pc EXCEPT ![r] = "finally"]
  /\ UNCHANGED <<qi, nres, seen_ids, posts, df, conn, cursor, di,
                 subreddit_map, year_map, db_err>>
  /\ UNCHANGED <<status, escaped, load_failed, queried, returned, skipped, pause,
                 empty_batch, facts_before>>

\* ------------------------------------------------------- database errors
StatementSteps ==
  {"dim_subreddit_insert", "dim_subreddit_select",
   "dim_time_insert", "dim_time_select", "fact_insert"}
CommitSteps == {"dim_subreddit_commit", "dim_time_commit", "fact_commit"}

\* What becomes of the open transaction of run r when a statement raises.
\* The connection survives: the transaction stays open until the close.
\* The connection is lost: the server rolls the transaction back, unless
\* the statement was a commit the server had applied before the client
\* stopped hearing from it.
AfterError(tbl, r, lost, applied) ==
  IF ~lost THEN tbl
  ELSE IF applied THEN CommitRows(tbl, r) ELSE RollbackRows(tbl, r)

\* Lines 97-127 and 131-132: cursor.execute, executemany or conn.commit
\* raises mysql.connector.Error (server gone, lock wait timeout, deadlock,
\* a constraint); the except clause logs it.
DbFail(r) ==
  /\ pc[r] \in StatementSteps \cup CommitSteps
  /\ \E lost \in BOOLEAN, applied \in BOOLEAN :
       /\ applied => (lost /\ pc[r] \in CommitSteps)
       /\ conn' = [conn EXCEPT ![r] = IF lost THEN "lost" ELSE @]
       /\ DimSubreddit' = AfterError(DimSubreddit, r, lost, applied)
       /\ DimTime' = AfterError(DimTime, r, lost, applied)
       /\ FactPost' = AfterError(FactPost, r, lost, applied)
  /\ ever_committed' = ever_committed \cup CommittedKeys(DimSubreddit', DimTime')
  /\ Caught(r, "db")
  /\ UNCHANGED <<qi, nres, seen_ids, posts, df, cursor, di, subreddit_map, year_map>>
  /\ UNCHANGED <<next_subreddit_id, next_time_id>>
  /\ UNCHANGED <<status, escaped, load_failed, queried, returned, skipped, pause,
                 empty_batch, facts_before, load_log>>

\* ---------------------------------------------------------------- finally
\* Line 135: conn.is_connected()
IsConnected(c) == c = "open"

\* Lines 134-137 with conn bound and connected: cursor.close(), conn.close().
FinallyClose(r) ==
  /\ pc[r] = "finally"
  /\ conn[r] # "undefined"
  /\ IsConnected(conn[r])
  /\ cursor[r] # "undefined"
  /\ cursor' = [cursor EXCEPT ![r] = "closed"]
  /\ conn' = [conn EXCEPT ![r] = "closed"]
  /\ DimSubreddit' = CloseRows(DimSubreddit, r)
  /\ DimTime' = CloseRows(DimTime, r)
  /\ FactPost' = CloseRows(FactPost, r)
  /\ pc' = [pc EXCEPT ![r] = "viz"]
  /\ UNCHANGED <<qi, nres, seen_ids, posts, df, di, subreddit_map, year_map, db_err>>
  /\ UNCHANGED <<next_subreddit_id, next_time_id, obs_vars>>

\* Lines 134-135 with conn bound and the connection gone: nothing to do.
FinallySkip(r) ==
  /\ pc[r] = "finally"
  /\ conn[r] # "undefined"
  /\ ~IsConnected(conn[r])
  /\ pc' = [pc EXCEPT ![r] = "viz"]
  /\ UNCHANGED <<qi, nres, seen_ids, posts, df, conn, cursor, di,
                 subreddit_map, year_map, db_err>>
  /\ UNCHANGED <<db_vars, obs_vars>>

\* Lines 135-136 reading a name that was never bound: conn when connect()
\* raised (or cursor behind a live connection).  NameError leaves the
\* finally clause; no handler encloses the try statement.
FinallyNameError(r) ==
  /\ pc[r] = "finally"
  /\ \/ conn[r] = "undefined"
     \/ IsConnected(conn[r]) /\ cursor[r] = "undefined"
  /\ Crash(r, "NameError")
  /\ UNCHANGED <<db_vars, queried, skipped, empty_batch, ever_committed, load_log>>

\* ---------------------------------------------------------- Visualization
\* Lines 139-208: the charts read the warehouse; whatever they raise is
\* caught and logged (lines 207-208).  The script ends: exit status 0.
Visualization(r) ==
  /\ pc[r] = "viz"
  /\ ProcessExit(r, 0, "none")
  /\ UNCHANGED <<db_vars, queried, skipped, empty_batch, ever_committed, load_log>>

\* ------------------------------------------------------- specifications
\* Lines 44-61: the collection loops.
Collecting(r) ==
  \/ Search(r)
  \/ Yield(r)
  \/ QueryDone(r)
  \/ QueryFail(r)

Collect(r) ==
  \/ Start(r)
  \/ Collecting(r)
  \/ Backup(r)
  \/ BackupFail(r)
  \/ Transform(r)
  \/ TransformEmpty(r)

Load(r) ==
  \/ Connect(r)
  \/ ConnectFail(r)
  \/ DimSubredditInsert(r)
  \/ DimSubredditCommit(r)
  \/ DimSubredditSelect(r)
  \/ DimTimeInsert(r)
  \/ DimTimeCommit(r)
  \/ DimTimeSelect(r)
  \/ FactInsert(r)
  \/ FactCommit(r)
  \/ DbFail(r)
  \/ FinallyClose(r)
  \/ FinallySkip(r)
  \/ FinallyNameError(r)
  \/ Visualization(r)

Next == \E r \in Runs : Collect(r) \/ Load(r)

\* Runs of the script one after another, on a warehouse that starts empty.
Spec == Init /\ [][Next]_vars

\* The last run is about to start on a warehouse that is still empty: every
\* run before it collected nothing and ended in line 77.
LastRunInit ==
  /\ pc = [r \in Runs |-> IF r < NumRuns THEN "crashed" ELSE "idle"]
  /\ qi = [r \in Runs |-> 1]
  /\ nres = [r \in Runs |-> 0]
  /\ seen_ids = [r \in Runs |-> {}]
  /\ posts = [r \in Runs |-> <<>>]
  /\ df = [r \in Runs |-> <<>>]
  /\ conn = [r \in Runs |-> "undefined"]
  /\ cursor = [r \in Runs |-> "undefined"]
  /\ di = [r \in Runs |-> 1]
  /\ subreddit_map = [r \in Runs |-> EmptyMap]
  /\ year_map = [r \in Runs |-> EmptyMap]
  /\ db_err = [r \in Runs |-> NoErr]
  /\ DimSubreddit = {}
  /\ DimTime = {}
  /\ FactPost = {}
  /\ next_subreddit_id = 1
  /\ next_time_id = 1
  /\ status = [r \in Runs |-> IF r < NumRuns THEN 1 ELSE -1]
  /\ escaped = [r \in Runs |-> IF r < NumRuns THEN "KeyError" ELSE "none"]
  /\ load_failed = [r \in Runs |-> FALSE]
  /\ queried = [r \in Runs |-> [i \in 1 .. NumPairs |->
                                  IF r < NumRuns THEN 1 ELSE 0]]
  /\ returned = [r \in Runs |-> {}]
  /\ skipped = [r \in Runs |-> FALSE]
  /\ pause = [r \in Runs |-> 0]
  /\ empty_batch = [r \in Runs |-> r < NumRuns]
  /\ facts_before = [r \in Runs |-> {}]
  /\ ever_committed = {}
  /\ load_log = [r \in Runs |-> <<>>]

\* The interpreter keeps executing the loops of a started run: every wait
\* in them is a bounded sleep or a request with a timeout.
FairSpec == LastRunInit /\ [][Next]_vars /\ \A r \in Runs : WF_vars(Collecting(r))

\* ------------------------------------------------- two runs load at once
\* The frames a run can hold when it reaches line 84: no id twice, at least
\* one row, and the rows in the order in which the subreddits are searched.
SubredditIndex(sr) ==
  CHOOSE i \in DOMAIN subreddits_to_search : subreddits_to_search[i] = sr
Frames ==
  { f \in UNION { [1 .. n -> { WithYear(PostRecord(s)) : s \in Submissions }] :
                  n \in 1 .. Cardinality(Submissions) } :
      \A i, j \in DOMAIN f :
        i < j => /\ f[i].id # f[j].id
                 /\ SubredditIndex(f[i].subreddit) <= SubredditIndex(f[j].subreddit) }

\* Column projection of a frame back to the list it was built from.
PostsOf(frame) ==
  [i \in DOMAIN frame |->
     [id |-> frame[i].id, date |-> frame[i].date, subreddit |-> frame[i].subreddit]]

\* The batches of the concurrent runs: ConcBatchLen posts each, which share
\* subreddits, years and posts with the batch of the other run.
ConcFrames == { f \in Frames : Len(f) = ConcBatchLen }

\* Two processes were started together, each has collected and transformed
\* a batch and is about to connect; the warehouse is empty.
ConcInit ==
  /\ df \in [Runs -> ConcFrames \cup {<<>>}]
  /\ \A r \in Runs : df[r] # <<>> <=> r \in ConcRuns
  /\ pc = [r \in Runs |-> IF r \in ConcRuns THEN "connect" ELSE "idle"]
  /\ qi = [r \in Runs |-> IF r \in ConcRuns THEN NumPairs + 1 ELSE 1]
  /\ nres = [r \in Runs |-> 0]
  /\ posts = [r \in Runs |-> PostsOf(df[r])]
  /\ seen_ids = [r \in Runs |-> Range(Column(df[r], "id"))]
  /\ conn = [r \in Runs |-> "undefined"]
  /\ cursor = [r \in Runs |-> "undefined"]
  /\ di = [r \in Runs |-> 1]
  /\ subreddit_map = [r \in Runs |-> EmptyMap]
  /\ year_map = [r \in Runs |-> EmptyMap]
  /\ db_err = [r \in Runs |-> NoErr]
  /\ DimSubreddit = {}
  /\ DimTime = {}
  /\ FactPost = {}
  /\ next_subreddit_id = 1
  /\ next_time_id = 1
  /\ status = [r \in Runs |-> -1]
  /\ escaped = [r \in Runs |-> "none"]
  /\ load_failed = [r \in Runs |-> FALSE]
  /\ queried = [r \in Runs |-> [i \in 1 .. NumPairs |->
                                  IF r \in ConcRuns THEN 1 ELSE 0]]
  /\ returned = [r \in Runs |-> Range(Column(df[r], "id"))]
  /\ skipped = [r \in Runs |-> FALSE]
  /\ pause = [r \in Runs |-> 0]
  /\ empty_batch = [r \in Runs |-> FALSE]
  /\ facts_before = [r \in Runs |-> {}]
  /\ ever_committed = {}
  /\ load_log = [r \in Runs |-> <<>>]

ConcNext == \E r \in Runs : Load(r)

ConcSpec == ConcInit /\ [][ConcNext]_vars

\* =================================================================== claims
Ids(frame) == Range(Column(frame, "id"))
PostIds(rows) == { row.post_id : row \in rows }
SubmissionOf(id) == CHOOSE s \in Submissions : s.id = id
Started(r) == pc[r] # "idle"
\* C1.  The collected batch never holds two entries with the same id, and
\* it holds an entry for exactly the ids that some search of the run has
\* returned, the same id returned by several searches included.
C1_Deduplication ==
  \A r \in Runs :
    /\ \A i, j \in DOMAIN posts[r] : i # j => posts[r][i].id # posts[r][j].id
    /\ Ids(posts[r]) = returned[r]
    /\ seen_ids[r] = returned[r]

\* C1 witness: the first submission of a search other than the first is one
\* an earlier search returned, and it was not appended again.
C1_Witness ==
  \E r \in Runs :
    /\ pc[r] = "iterate" /\ qi[r] > 1 /\ nres[r] = 1 /\ skipped[r]
    /\ Len(posts[r]) = Cardinality(returned[r])
    /\ Len(posts[r]) >= 1

\* C2.  Re-running is idempotent at the fact table: FactPost never holds
\* two rows with the same post_id; no run fails on a duplicate key; a
\* completed load leaves FactPost with the rows it had plus one row per
\* batch id that was missing, so a load whose ids are all there changes
\* nothing; and two completed loads of the same batch, the first into an
\* empty FactPost and the second on what the first left, leave the same
\* rows, as many as the batch has posts.
C2_IdempotentRerun ==
  /\ \A f, g \in FactPost : f.post_id = g.post_id => f = g
  /\ \A r \in Runs : db_err[r].kind # "duplicate"
  /\ \A r \in Runs :
       load_log[r] # <<>> =>
         LET L == load_log[r]
         IN /\ L.before \subseteq L.after
            /\ PostIds(L.after) = PostIds(L.before) \cup L.batch
            /\ Cardinality(L.after) = Cardinality(PostIds(L.after))
            /\ L.batch \subseteq PostIds(L.before) => L.after = L.before
            /\ L.before = {} => Cardinality(L.after) = L.rows
  /\ \A r, q \in Runs :
       (/\ r < q /\ load_log[r] # <<>> /\ load_log[q] # <<>>
        /\ load_log[r].before = {}
        /\ load_log[q].before = load_log[r].after
        /\ load_log[q].batch = load_log[r].batch)
       => /\ load_log[q].after = load_log[r].after
          /\ Cardinality(load_log[q].after) = load_log[r].rows

\* C2 witness: two runs have loaded the same batch of two posts, the first
\* into the empty warehouse, the second on what the first left.
C2_Witness ==
  \E r, q \in Runs :
    /\ r < q /\ load_log[r] # <<>> /\ load_log[q] # <<>>
    /\ load_log[r].before = {}
    /\ load_log[r].rows >= 2
    /\ load_log[q].before = load_log[r].after
    /\ load_log[q].batch = load_log[r].batch

\* C3.  Dimension rows are stable: over the whole history no natural key
\* was ever committed under two surrogate keys (nor a surrogate key under
\* two natural keys), every row ever committed is still there unchanged,
\* and every key a run has read back for a name or a year is the key that
\* natural key was committed under.  So every resolution of one name, in
\* whatever run, returns the same key.
C3_DimensionStability ==
  /\ \A e, f \in ever_committed :
       e[1] = f[1] => ((e[2] = f[2]) <=> (e[3] = f[3]))
  /\ ever_committed \subseteq CommittedKeys(DimSubreddit, DimTime)
  /\ \A r \in Runs :
       /\ \A sr \in DOMAIN subreddit_map[r] :
            <<"DimSubreddit", subreddit_map[r][sr], sr>> \in ever_committed
       /\ \A y \in DOMAIN year_map[r] :
            <<"DimTime", year_map[r][y], y>> \in ever_committed

\* C3 witness: a run has read back, for a name and for a year, the keys of
\* rows that an earlier run created.
C3_Witness ==
  \E r \in Runs :
    /\ \E sr \in DOMAIN subreddit_map[r] :
         \E row \in DimSubreddit :
           row.name = sr /\ row.by < r /\ row.subreddit_id = subreddit_map[r][sr]
    /\ \E y \in DOMAIN year_map[r] :
         \E row \in DimTime :
           row.year = y /\ row.by < r /\ row.time_id = year_map[r][y]

\* C4.  Two runs that resolve the same name or year at the same time: the
\* tables never hold two rows for one natural key, a key read back is the
\* key of the one committed row of that natural key, two runs that read
\* back the same natural key hold the same surrogate key, and no run fails
\* on a duplicate key or on an empty read-back.
C4_ConcurrentResolution ==
  /\ \A s, u \in DimSubreddit : s.name = u.name => s = u
  /\ \A s, u \in DimTime : s.year = u.year => s = u
  /\ \A r \in Runs : db_err[r].kind \notin {"duplicate", "norow"}
  /\ \A r \in Runs :
       /\ \A sr \in DOMAIN subreddit_map[r] :
            \E row \in Committed(DimSubreddit) :
              row.name = sr /\ row.subreddit_id = subreddit_map[r][sr]
       /\ \A y \in DOMAIN year_map[r] :
            \E row \in Committed(DimTime) :
              row.year = y /\ row.time_id = year_map[r][y]
  /\ \A r, q \in Runs :
       /\ \A sr \in DOMAIN subreddit_map[r] \cap DOMAIN subreddit_map[q] :
            subreddit_map[r][sr] = subreddit_map[q][sr]
       /\ \A y \in DOMAIN year_map[r] \cap DOMAIN year_map[q] :
            year_map[r][y] = year_map[q][y]

\* C4 witness: both runs are connected and have read back the same year, one
\* of them the row the other inserted, while the run that inserted it has
\* not reached its fact insert.
C4_Witness ==
  \E r, q \in Runs :
    /\ r # q
    /\ conn[r] = "open" /\ conn[q] = "open"
    /\ \E y \in DOMAIN year_map[r] \cap DOMAIN year_map[q] :
         \E row \in DimTime : row.year = y /\ row.by = q
    /\ \E sr \in DOMAIN subreddit_map[r] \cap DOMAIN subreddit_map[q] :
         \E row \in DimSubreddit : row.name = sr /\ row.by = r
    /\ pc[q] \in {"dim_time_insert", "dim_time_commit", "dim_time_select"}

\* The searches the run has issued, by its place in the loops.
C5_Searched(r) ==
  \A i \in 1 .. NumPairs :
    queried[r][i] =
      IF \/ ~Started(r)
         \/ pc[r] = "search" /\ i >= qi[r]
         \/ pc[r] = "iterate" /\ i > qi[r]
      THEN 0 ELSE 1

\* C5.  A failing search does not end the collection.  At every point each
\* pair before the current one has been searched exactly once and no later
\* pair has been searched; the cool-down of a failed search is slept with
\* the run on its way to the next pair or past the last one; a run that is
\* past the loops has searched every pair exactly once; and a run in the
\* loops gets past them.
C5_FailureIsolation ==
  /\ [](\A r \in Runs :
          /\ C5_Searched(r)
          /\ pause[r] # 0 => pc[r] \in {"search", "backup"}
          /\ pc[r] = "backup" => qi[r] = NumPairs + 1)
  /\ \A r \in Runs : (pc[r] \in {"search", "iterate"}) ~> (pc[r] = "backup")

\* C5 witness: the first search failed after it had yielded a submission,
\* the cool-down is being slept and the second pair is next.
C5_Witness ==
  \E r \in Runs :
    /\ pc[r] = "search" /\ qi[r] = 2 /\ pause[r] = 5
    /\ Len(posts[r]) = 1
    /\ queried[r][1] = 1

\* C6 (as claimed).  A run that collected no post raises no error and
\* leaves the warehouse as it was.
C6_EmptyBatchShortCircuit ==
  \A r \in Runs :
    empty_batch[r] => /\ escaped[r] = "none"
                      /\ status[r] \in {-1, 0}

\* C7 (as claimed).  The clean-up never raises, and once it is over the
\* connection is not open.
C7_ConnectionCleanup ==
  \A r \in Runs :
    /\ escaped[r] # "NameError"
    /\ pc[r] = "viz" => conn[r] \in {"undefined", "lost", "closed"}

\* C8 (as claimed).  No error escapes a run, and a run ends with status 0
\* exactly if its load logged no database error.
C8_ErrorBoundary ==
  \A r \in Runs :
    /\ escaped[r] = "none"
    /\ pc[r] = "done" => (status[r] = 0 <=> ~load_failed[r])

\* C9.  Dimensions before facts: a run at its fact insert or fact commit
\* holds, for every name and year of its batch, the key of a committed
\* dimension row of that natural key; and every FactPost row, committed or
\* not, points to committed DimSubreddit and DimTime rows whose name and
\* year are those of the post.
C9_DimensionsBeforeFacts ==
  /\ \A r \in Runs :
       pc[r] \in {"fact_insert", "fact_commit"} =>
         /\ DOMAIN subreddit_map[r] = Range(Column(df[r], "subreddit"))
         /\ DOMAIN year_map[r] = Range(Column(df[r], "year"))
         /\ \A sr \in DOMAIN subreddit_map[r] :
              \E row \in Committed(DimSubreddit) :
                row.name = sr /\ row.subreddit_id = subreddit_map[r][sr]
         /\ \A y \in DOMAIN year_map[r] :
              \E row \in Committed(DimTime) :
                row.year = y /\ row.time_id = year_map[r][y]
  /\ \A f \in FactPost :
       /\ \E row \in Committed(DimSubreddit) :
            /\ row.subreddit_id = f.subreddit_id
            /\ row.name = SubmissionOf(f.post_id).subreddit
       /\ \E row \in Committed(DimTime) :
            /\ row.time_id = f.time_id
            /\ row.year = YearOf(SubmissionOf(f.post_id).date)

\* C9 witness: committed facts of three posts, two of one subreddit and two
\* of one year.
C9_Witness ==
  \E f, g, h \in Committed(FactPost) :
    /\ f.post_id # g.post_id /\ g.post_id # h.post_id /\ f.post_id # h.post_id
    /\ f.subreddit_id = g.subreddit_id /\ f.time_id # g.time_id
    /\ g.time_id = h.time_id /\ g.subreddit_id # h.subreddit_id

\* The fact rows the bulk insert of run r would add: one per batch id that
\* was not in FactPost before the run.
NewPostIds(r) == Ids(df[r]) \ PostIds(facts_before[r])
RowsBy(r) == { f \in FactPost : f.by = r }

\* C10 (amended).  After a failed load the dimension rows the run read
\* back are still there, committed.  If the bulk insert raised, the run has
\* added no fact row and FactPost is what it was before the run, rows of
\* earlier runs for ids of this batch included.  If the commit after it
\* raised, the run has added either every missing row of the batch or none.
C10_LoadFailureEffect ==
  \A r \in Runs :
    (pc[r] \in {"finally", "viz"} /\ db_err[r] # NoErr) =>
      /\ \A sr \in DOMAIN subreddit_map[r] :
           \E row \in Committed(DimSubreddit) :
             row.name = sr /\ row.subreddit_id = subreddit_map[r][sr]
      /\ \A y \in DOMAIN year_map[r] :
           \E row \in Committed(DimTime) :
             row.year = y /\ row.time_id = year_map[r][y]
      /\ db_err[r].at = "fact_insert" =>
           /\ RowsBy(r) = {}
           /\ FactPost = facts_before[r]
      /\ (db_err[r].at = "fact_commit" /\ pc[r] = "viz") =>
           /\ PostIds(RowsBy(r)) \in {{}, NewPostIds(r)}
           /\ Committed(FactPost) = FactPost

\* C10 witness: the bulk insert of a run raised; the run had created a
\* dimension row, which is committed, and an earlier run had loaded a post
\* of this batch.
C10_Witness ==
  \E r \in Runs :
    /\ pc[r] = "viz" /\ db_err[r].at = "fact_insert"
    /\ \E row \in Committed(DimSubreddit) : row.by = r
    /\ \E row \in Committed(DimTime) : row.by = r
    /\ Ids(df[r]) \cap PostIds(facts_before[r]) # {}
    /\ NewPostIds(r) # {}

\* C10 (as claimed).  After a failure of the bulk insert no fact row of
\* the current batch is present.
C10_AsClaimed ==
  \A r \in Runs :
    (pc[r] \in {"finally", "viz"} /\ db_err[r].at = "fact_insert") =>
      PostIds(FactPost) \cap Ids(df[r]) = {}
====
